---------------------------- MODULE Spec2Model ----------------------------
(***************************************************************************)
(* Model of the German company crawler: the /api/company handler           *)
(* (crawl_company in server.py), the four scrapers it fans out to, the     *)
(* companies.json tax-id lookup and the files the scrapers leave under     *)
(* data/companies/.                                                        *)
(*                                                                         *)
(* Strings are sequences of one-character strings, so that lower(),        *)
(* replace(), strip() and path concatenation are computed, not assumed.    *)
(* Python's None is the empty tuple None and a present value x is the      *)
(* one-element tuple Some(x).                                              *)
(***************************************************************************)
EXTENDS Integers, Sequences, FiniteSets, TLC

\* ------------------------------------------------------------------ bounds

\* Number of requests the server receives in a run of repeated requests.
MaxRequests == 2

\* ------------------------------------------------------------ option type

None == <<>>

Some(x) == <<x>>

IsSome(o) == o # None

Val(o) == o[1]

\* ---------------------------------------------------------------- strings

\* str.lower() on the characters that occur in the model.
LowerChar(c) ==
    CASE c = "A" -> "a"
      [] c = "B" -> "b"
      [] c = "H" -> "h"
      [] c = "R" -> "r"
      [] c = "D" -> "d"
      [] c = "E" -> "e"
      [] OTHER -> c

Lower(s) == [i \in 1..Len(s) |-> LowerChar(s[i])]

\* s.startswith(p)
StartsWith(s, p) == Len(s) >= Len(p) /\ SubSeq(s, 1, Len(p)) = p

RECURSIVE Replace(_, _, _)
\* s.replace(old, new) for a non-empty old: leftmost, non-overlapping.
Replace(s, old, new) ==
    IF s = <<>> THEN <<>>
    ELSE IF StartsWith(s, old)
         THEN new \o Replace(SubSeq(s, Len(old) + 1, Len(s)), old, new)
         ELSE <<s[1]>> \o Replace(Tail(s), old, new)

RECURSIVE LStrip(_)
LStrip(s) == IF s # <<>> /\ s[1] = " " THEN LStrip(Tail(s)) ELSE s

RECURSIVE RStrip(_)
RStrip(s) ==
    IF s # <<>> /\ s[Len(s)] = " " THEN RStrip(SubSeq(s, 1, Len(s) - 1)) ELSE s

\* s.strip()
Strip(s) == RStrip(LStrip(s))

\* Python truthiness of an Optional[str]: neither None nor "".
Truthy(o) == IsSome(o) /\ Val(o) # <<>>

Digits == {"0", "1", "2", "3", "4", "5", "6", "7", "8", "9"}

\* \w of the regular expression in _save_html_to_magna_folder.
WordChars == {"A", "B", "D", "E", "H", "R", "a", "b", "_"} \cup Digits

\* ------------------------------------------------------------------ inputs

HRB == <<"H", "R", "B">>

NameAb == <<"A", "b">>

NameADotB == <<"A", ".", "b">>

RegHRB1 == <<"H", "R", "B", "1">>

RegBare1 == <<"1">>

UstDE9 == <<"D", "E", "9">>

UstDE7 == <<"D", "E", "7">>

\* Company names a client sends.
Names == {NameAb, NameADotB}

\* Register numbers a client sends: one well-formed, one without type code.
Regs == {RegHRB1, RegBare1}

\* Values of the optional ust_idnr field: the default "" and a tax id.
UstInputs == {Some(<<>>), Some(UstDE9)}

\* Request bodies: every combination of string fields, and one body whose
\* registernummer is null.
Requests ==
    [company_name : {Some(n) : n \in Names},
     registernummer : {Some(r) : r \in Regs},
     ust_idnr : UstInputs]
    \cup {[company_name |-> Some(NameAb), registernummer |-> None,
           ust_idnr |-> Some(<<>>)]}

\* The bodies of repeated requests: one register number, two company names.
RepeatRequests ==
    [company_name : {Some(n) : n \in Names},
     registernummer : {Some(RegHRB1)},
     ust_idnr : {Some(<<>>)}]

\* The request of the runs that look at the extracted fields.
FieldsRequest ==
    [company_name |-> Some(NameAb), registernummer |-> Some(RegHRB1),
     ust_idnr |-> Some(<<>>)]

\* Entries of data/companies.json.
EntryAb == [company_name |-> Some(NameAb), registernummer |-> Some(RegHRB1),
            ust_idnr |-> Some(UstDE7)]

EntryNullName == [company_name |-> None, registernummer |-> Some(RegHRB1),
                  ust_idnr |-> Some(UstDE7)]

\* States of data/companies.json: missing or unparsable (None), or a list.
CompaniesFiles ==
    {None, Some(<<EntryAb>>), Some(<<EntryNullName, EntryAb>>)}

\* ------------------------------------------------------ companies.json

\* load_companies_data: the list, or [] when the file cannot be loaded.
load_companies_data(file) == IF IsSome(file) THEN Val(file) ELSE <<>>

\* company.get(key, ''): the value, '' for a missing key, None for null.
DictGet(d, key) == IF key \in DOMAIN d THEN d[key] ELSE Some(<<>>)

\* The register-number normalisation used on both sides of the comparison.
NormalizeReg(r) == Replace(Replace(r, HRB, <<>>), <<" ">>, <<>>)

\* One iteration of the loop of get_company_ust_idnr: "raise" when a method
\* is called on None, "hit" with the stripped tax id, or "next".
MatchEntry(company, company_name, registernummer) ==
    LET cn == DictGet(company, "company_name")
        rn == DictGet(company, "registernummer")
        ust == DictGet(company, "ust_idnr")
    IN  IF ~IsSome(cn) THEN [kind |-> "raise", value |-> None]
        ELSE IF Lower(Val(cn)) # Lower(company_name)
        THEN [kind |-> "next", value |-> None]
        ELSE IF ~IsSome(rn) THEN [kind |-> "raise", value |-> None]
        ELSE IF NormalizeReg(Val(rn)) # NormalizeReg(registernummer)
        THEN [kind |-> "next", value |-> None]
        ELSE IF Truthy(ust) /\ Strip(Val(ust)) # <<>>
        THEN [kind |-> "hit", value |-> Some(Strip(Val(ust)))]
        ELSE [kind |-> "next", value |-> None]

RECURSIVE ScanCompanies(_, _, _)
ScanCompanies(list, company_name, registernummer) ==
    IF list = <<>> THEN [kind |-> "miss", value |-> None]
    ELSE LET m == MatchEntry(list[1], company_name, registernummer)
         IN  IF m.kind = "next"
             THEN ScanCompanies(Tail(list), company_name, registernummer)
             ELSE m

\* get_company_ust_idnr: [kind |-> "raise"] or the Optional[str] it returns.
get_company_ust_idnr(file, company_name, registernummer) ==
    ScanCompanies(load_companies_data(file), company_name, registernummer)

\* The register-type codes (types in _get_register_type).
RegisterTypes ==
    {<<"H", "R", "B">>, <<"H", "R", "A">>, <<"G", "n", "R">>, <<"P", "R">>,
     <<"V", "R">>, <<"G", "s", "R">>}

\* ------------------------------------------------------------------- files

Sources == {"handelsregister", "northdata", "linkedin", "unternehmensregister"}

\* The order in which crawl_company submits and awaits the four futures.
Order == <<"handelsregister", "northdata", "linkedin", "unternehmensregister">>

\* data/companies/, the directory every scraper writes to.
CompaniesDir == <<"data/companies/">>

\* os.path.join(download_dir, f"{registernummer}_AD.pdf")
PdfPath(dir, registernummer) == dir \o registernummer \o <<"_AD.pdf">>

\* os.path.join(download_dir, f"{registernummer}_SI.xml")
XmlPath(dir, registernummer) == dir \o registernummer \o <<"_SI.xml">>

\* Characters kept by re.sub(r'[^\w\s-]', '', company_name).
IsNameChar(c) == c \in WordChars \cup {" ", "-"}

\* clean_name of _save_html_to_magna_folder.
CleanName(company_name) ==
    Replace(Strip(SelectSeq(company_name, IsNameChar)), <<" ">>, <<"_">>)

\* html_filepath of _save_html_to_magna_folder.
NorthdataPath(company_name, registernummer) ==
    CompaniesDir \o CleanName(company_name) \o <<"_">> \o registernummer
        \o <<"_northdata.html">>

Paths ==
    {PdfPath(CompaniesDir, r) : r \in Regs}
    \cup {XmlPath(CompaniesDir, r) : r \in Regs}
    \cup {NorthdataPath(n, r) : n \in Names, r \in Regs}

\* A document or HTML fragment obtained from a site. req, name and reg record
\* the request that obtained it (its number and its identifier); ust is the
\* first match of DE\d{9} in its text
\* (None when there is none); ok tells whether the server can read it back
\* (a PDF whose page yields no text, a file that is not UTF-8).
Content(req, name, reg, ust, ok) ==
    [req |-> req, name |-> name, reg |-> reg, ust |-> ust, ok |-> ok]

\* The tax ids the three searched artifacts may contain.
UstInXml == <<"D", "E", "1">>

UstInNorthdata == <<"D", "E", "2">>

UstInJahresabschluss == <<"D", "E", "3">>

\* re.search(r'DE\d{9}', text): the match, or None.
SearchUst(content) == content.ust

\* The empty dict {}.
EmptyDict == <<>>

\* 'key' in d
HasKey(d, key) == key \in DOMAIN d

\* {**base, **update}: the keys of both, update's value where both have one.
DictUpdate(base, update) == update @@ base

\* The one-entry dict {key: value} when cond holds, {} otherwise.
Entry(cond, key, value) == IF cond THEN key :> Some(value) ELSE EmptyDict

\* --------------------------------------------------- registry documents

\* sub in s
RECURSIVE Contains(_, _)
Contains(s, sub) ==
    IF Len(s) < Len(sub) THEN FALSE
    ELSE StartsWith(s, sub) \/ Contains(Tail(s), sub)

IsSpace(c) == c \in {" ", "\n"}

RECURSIVE Squeeze(_)
\* Every run of whitespace that a word follows becomes one blank.
Squeeze(s) ==
    IF s = <<>> THEN <<>>
    ELSE IF IsSpace(s[1])
         THEN (IF Len(s) > 1 /\ ~IsSpace(s[2]) THEN <<" ">> ELSE <<>>)
              \o Squeeze(Tail(s))
         ELSE <<s[1]>> \o Squeeze(Tail(s))

\* ' '.join(value.split())
JoinSplit(s) == LStrip(Squeeze(s))

\* _get_text: the stripped text of the element found, None when there is no
\* such element or it has no text.
GetText(el) == IF Truthy(el) THEN Some(Strip(Val(el))) ELSE None

Code086 == <<"086">>

\* The Geschaeftsfuehrer loop of _extract_company_info: the participants
\* with role code 086 and both names, as "vorname nachname".
Geschaeftsfuehrer(beteiligung) ==
    LET named(b) == /\ Code086 \in b.codes
                    /\ Truthy(GetText(b.vorname))
                    /\ Truthy(GetText(b.nachname))
        sel == SelectSeq(beteiligung, named)
    IN  [i \in 1..Len(sel) |->
            Val(GetText(sel[i].vorname)) \o <<" ">> \o Val(GetText(sel[i].nachname))]

\* The text looked for in gegenstand (the paragraph sign, then "34c GewO").
GewoMark == <<"Par. 34c GewO">>

\* _extract_company_info: the fields read from the XML tree. root holds the
\* text of each element the parser looks up (None: no such element).
extract_company_info(root) ==
    LET register_code == GetText(root.register_code)
        laufende_nummer == GetText(root.laufendeNummer)
        gericht_code == GetText(root.gericht_code)
        geschaeftsfuehrer == Geschaeftsfuehrer(root.beteiligung)
        strasse == GetText(root.strasse)
        hausnummer == GetText(root.hausnummer)
        plz == GetText(root.postleitzahl)
        ort == GetText(root.ort)
        gegenstand == GetText(root.gegenstand)
        staat_code == GetText(root.staat_code)
        unternehmensname == GetText(root.bezeichnung)
    IN  Entry(Truthy(register_code) /\ Truthy(laufende_nummer), "registernummer",
              Val(register_code) \o Val(laufende_nummer))
        @@ Entry(gericht_code = Some(<<"K1101R">>), "handelsregister", <<"Hamburg">>)
        @@ Entry(gericht_code = Some(<<"K1101R">>), "gerichtsstand",
                 <<"Amtsgericht Hamburg">>)
        @@ Entry(geschaeftsfuehrer # <<>>, "geschaeftsfuehrer", geschaeftsfuehrer)
        @@ Entry(Truthy(strasse) /\ Truthy(hausnummer) /\ Truthy(plz) /\ Truthy(ort),
                 "geschaeftsadresse",
                 Val(strasse) \o <<" ">> \o Val(hausnummer) \o <<",", " ">>
                     \o Val(plz) \o <<" ">> \o Val(ort))
        @@ Entry(Truthy(gegenstand)
                     /\ gegenstand # Some(<<"Strukturierter Registerinhalt">>),
                 "unternehmenszweck", Val(gegenstand))
        @@ Entry(staat_code = Some(<<"000">>) \/ root.staat_deutschland,
                 "land_des_hauptsitzes", <<"Deutschland">>)
        @@ Entry(Truthy(gegenstand) /\ Contains(Val(gegenstand), GewoMark),
                 "paragraph_34_gewo", TRUE)
        @@ Entry(Truthy(unternehmensname), "unternehmensname", Val(unternehmensname))

\* parse_xml_content (called by parse_xml_file): the fields of a well-formed
\* document, {} when ET.fromstring raises (xml_content is None).
parse_xml_content(xml_content) ==
    IF IsSome(xml_content) THEN extract_company_info(Val(xml_content))
    ELSE EmptyDict

\* The loop over field_mapping: the listed keys that are present and not None.
MapFields(data, field_mapping) ==
    [k \in {f \in field_mapping : HasKey(data, f) /\ IsSome(data[f])} |-> data[k]]

XmlFieldMapping ==
    {"registernummer", "handelsregister", "geschaeftsfuehrer", "geschaeftsadresse",
     "unternehmenszweck", "gruendungsdatum", "land_des_hauptsitzes",
     "gerichtsstand", "paragraph_34_gewo"}

PdfFieldMapping ==
    {"geschaeftsadresse", "unternehmenszweck", "geschaeftsfuehrer",
     "handelsregister", "registernummer"}

\* _extract_with_patterns: text holds, for each field, the first match of its
\* patterns in the text of the PDF (None: no pattern matches), cleaned as the
\* loop cleans it.
extract_with_patterns(text) ==
    Entry(IsSome(text.geschaeftsadresse), "geschaeftsadresse",
          JoinSplit(Strip(Val(text.geschaeftsadresse))))
    @@ Entry(IsSome(text.unternehmenszweck), "unternehmenszweck",
             JoinSplit(Strip(Val(text.unternehmenszweck))))
    @@ Entry(IsSome(text.geschaeftsfuehrer), "geschaeftsfuehrer",
             Strip(Val(text.geschaeftsfuehrer)))
    @@ Entry(IsSome(text.letzte_eintragung), "letzte_eintragung",
             Strip(Val(text.letzte_eintragung)))
    @@ Entry(IsSome(text.handelsregister), "handelsregister",
             Strip(Val(text.handelsregister)[1] \o <<" ">>
                   \o Val(text.handelsregister)[2]))
    @@ Entry(IsSome(text.registernummer), "registernummer",
             Replace(Strip(Val(text.registernummer)), <<" ">>, <<>>))

\* extract_from_pdf of a PDF without tables: {} when pdfplumber raises or
\* gets no text out of it (pdf is None).
extract_from_pdf(pdf) ==
    IF IsSome(pdf) THEN extract_with_patterns(Val(pdf)) ELSE EmptyDict

\* The documents the registry portal serves.

\* An XML document none of whose looked-up elements exists.
XmlPlain ==
    [register_code |-> None, laufendeNummer |-> None, gericht_code |-> None,
     beteiligung |-> <<>>, strasse |-> None, hausnummer |-> None,
     postleitzahl |-> None, ort |-> None, gegenstand |-> None,
     staat_code |-> None, staat_deutschland |-> FALSE, bezeichnung |-> None]

\* A full document of the Hamburg court: two participants, one a director.
XmlHamburg ==
    [register_code |-> Some(HRB), laufendeNummer |-> Some(<<" ", "1">>),
     gericht_code |-> Some(<<"K1101R">>),
     beteiligung |->
        <<[codes |-> {Code086}, vorname |-> Some(<<"X">>), nachname |-> Some(<<"Y">>)],
          [codes |-> {<<"285">>}, vorname |-> Some(<<"Z">>), nachname |-> Some(<<"W">>)]>>,
     strasse |-> Some(<<"T">>), hausnummer |-> Some(<<"5">>),
     postleitzahl |-> Some(<<"2">>), ort |-> Some(<<"O">>),
     gegenstand |-> Some(<<"G", " ", "Par. 34c GewO">>),
     staat_code |-> Some(<<"000">>), staat_deutschland |-> FALSE,
     bezeichnung |-> Some(NameAb)]

\* A document that names the directors and nothing else.
XmlPartial ==
    [XmlPlain EXCEPT !.beteiligung =
        <<[codes |-> {Code086}, vorname |-> Some(<<"X">>), nachname |-> Some(<<"Y">>)],
          [codes |-> {Code086}, vorname |-> Some(<<"V">>), nachname |-> None]>>]

\* A PDF whose text matches none of the patterns.
PdfPlain ==
    [geschaeftsadresse |-> None, unternehmenszweck |-> None,
     geschaeftsfuehrer |-> None, letzte_eintragung |-> None,
     handelsregister |-> None, registernummer |-> None]

\* A register extract of the Berlin court.
PdfBerlin ==
    [geschaeftsadresse |-> Some(<<"S", " ", "1", ",", "\n", " ", "2", " ", "O", " ">>),
     unternehmenszweck |-> None,
     geschaeftsfuehrer |-> Some(<<" ", "P", " ", "Q", ",", " ", "X", " ", "Y">>),
     letzte_eintragung |-> Some(<<"01.02.2020">>),
     handelsregister |-> Some(<<(<<"B">>), (<<"Berlin">>)>>),
     registernummer |-> Some(<<"H", "R", "B", " ", "1">>)]

\* The parsed form of the XML a download of each kind leaves on disk; None
\* for a file that is not well-formed XML.
XmlDocument(kind) ==
    CASE kind = "hamburg" -> Some(XmlHamburg)
      [] kind = "partial" -> Some(XmlPartial)
      [] kind = "bad" -> None
      [] OTHER -> Some(XmlPlain)

\* The text of the PDF a download of each kind leaves on disk; None for a
\* PDF no text comes out of.
PdfDocument(kind) ==
    CASE kind = "berlin" -> Some(PdfBerlin)
      [] kind = "bad" -> None
      [] OTHER -> Some(PdfPlain)

\* A downloaded document: the file's content together with what a parser
\* finds in it.
Document(content, doc) ==
    [k \in DOMAIN content \cup {"doc"} |-> IF k = "doc" THEN doc ELSE content[k]]

\* ---------------------------------------------------------------- scrapers

\* What a run of HandelsregisterScraper.scrape_company can come to: the
\* browser does not launch (raise); an exception inside the try block
\* (empty); the search has no result (notfound); or a result whose PDF
\* download fails, succeeds, or succeeds with a PDF without extractable text
\* (bad), and whose XML download fails, succeeds, or succeeds with a tax id.
\* When the site cannot be reached only the first two remain. pdfs and xmls
\* are the kinds of document the portal serves (PdfDocument, XmlDocument).
HandelsregisterOutcomes(reachable, pdfs, xmls) ==
    {[kind |-> k, pdf |-> "na", xml |-> "na"] : k \in {"raise", "empty"}}
    \cup IF reachable
         THEN {[kind |-> "notfound", pdf |-> "na", xml |-> "na"]}
              \cup [kind : {"found"}, pdf : {"fail"} \cup pdfs,
                    xml : {"fail"} \cup xmls]
         ELSE {}

\* parse_xml_file: {} when the file cannot be read or parsed.
parse_xml_file(files, xml_path) ==
    IF ~Val(files[xml_path]).ok THEN EmptyDict
    ELSE parse_xml_content(Val(files[xml_path]).doc)

\* _extract_xml_data: the mapped fields of the XML file on disk, {} when
\* there is none.
extract_xml_data(files, download_dir, registernummer) ==
    LET xml_path == XmlPath(download_dir, registernummer)
    IN  IF xml_path \notin DOMAIN files \/ ~IsSome(files[xml_path]) THEN EmptyDict
        ELSE MapFields(parse_xml_file(files, xml_path), XmlFieldMapping)

\* _extract_pdf_data: the mapped fields of the PDF file on disk, {} when
\* there is none.
extract_pdf_data(files, download_dir, registernummer) ==
    LET pdf_path == PdfPath(download_dir, registernummer)
    IN  IF pdf_path \notin DOMAIN files \/ ~IsSome(files[pdf_path]) THEN EmptyDict
        ELSE MapFields(extract_from_pdf(Val(files[pdf_path]).doc), PdfFieldMapping)

\* A combination in which the PDF's fields come last.
CombinePdfLast(base, pdf_data, xml_data) ==
    DictUpdate(DictUpdate(base, xml_data), pdf_data)

\* Step 11 of scrape_company: {**base, **pdf_data, **xml_data}.
Combine(base, pdf_data, xml_data) ==
    DictUpdate(DictUpdate(base, pdf_data), xml_data)

\* A scrape_company whose extraction steps let a parser's exception through
\* to its except clause.
HandelsregisterDataParseRaises(files, o, registernummer) ==
    LET base == [registernummer |-> Some(registernummer),
                 download_directory |-> Some(CompaniesDir)]
    IN  IF o.kind = "empty" THEN EmptyDict
        ELSE IF o.kind = "notfound" THEN base
        ELSE IF o.pdf = "bad" \/ o.xml = "bad" THEN EmptyDict
        ELSE Combine(base,
                     extract_pdf_data(files, CompaniesDir, registernummer),
                     extract_xml_data(files, CompaniesDir, registernummer))

\* The dict HandelsregisterScraper.scrape_company returns; files are the
\* files on disk after its downloads.
HandelsregisterData(files, o, registernummer) ==
    LET base == [registernummer |-> Some(registernummer),
                 download_directory |-> Some(CompaniesDir)]
    IN  IF o.kind = "empty" THEN EmptyDict
        ELSE IF o.kind = "notfound" THEN base
        ELSE Combine(base,
                     extract_pdf_data(files, CompaniesDir, registernummer),
                     extract_xml_data(files, CompaniesDir, registernummer))

\* The files of data/companies/ after the run: _download_ad_pdf and
\* _download_si_xml overwrite a file only when their download succeeds.
HandelsregisterWrites(files, o, req, company_name, registernummer) ==
    LET pdf == PdfPath(CompaniesDir, registernummer)
        xml == XmlPath(CompaniesDir, registernummer)
    IN  IF o.kind # "found" THEN files
        ELSE [p \in DOMAIN files |->
                IF p = pdf /\ o.pdf # "fail"
                THEN Some(Document(Content(req, company_name, registernummer,
                                           None, o.pdf # "bad"),
                                   PdfDocument(o.pdf)))
                ELSE IF p = xml /\ o.xml # "fail"
                THEN Some(Document(Content(req, company_name, registernummer,
                                           IF o.xml = "ust" THEN Some(UstInXml)
                                           ELSE None,
                                           TRUE),
                                   XmlDocument(o.xml)))
                ELSE files[p]]

\* What the page the aggregator's browser ends on holds for the extractors
\* of _extract_company_data: the city after "Amtsgericht", whether one of
\* the insolvency indicators, the GewO paragraph and "Deutschland" occur,
\* and what _extract_mitarbeiter and _extract_umsatz find. The remaining
\* extractors find nothing on the pages of the model.
NorthdataPage(kind) ==
    IF kind = "berlin"
    THEN [amtsgericht |-> Some(<<"Berlin">>), insolvency_indicator |-> TRUE,
          gewo |-> FALSE, deutschland |-> TRUE, mitarbeiter |-> Some(14),
          umsatz |-> None]
    ELSE [amtsgericht |-> None, insolvency_indicator |-> FALSE,
          gewo |-> FALSE, deutschland |-> FALSE, mitarbeiter |-> None,
          umsatz |-> None]

\* {k: v for k, v in data.items() if v is not None}
RemoveNone(data) == [k \in {f \in DOMAIN data : IsSome(data[f])} |-> data[k]]

\* _extract_company_data: each extractor's value, None values removed.
extract_company_data(page, registernummer) ==
    RemoveNone(
        [registernummer |-> Some(registernummer),
         handelsregister |-> page.amtsgericht,
         gerichtsstand |->
            IF IsSome(page.amtsgericht)
            THEN Some(<<"Amtsgericht", " ">> \o Val(page.amtsgericht)) ELSE None,
         land_des_hauptsitzes |->
            IF page.deutschland THEN Some(<<"Deutschland">>) ELSE None,
         paragraph_34_gewo |-> IF page.gewo THEN Some(TRUE) ELSE None,
         insolvenz |-> Some(page.insolvency_indicator),
         mitarbeiter |-> page.mitarbeiter,
         umsatz |-> page.umsatz])

\* NorthdataScraper.scrape_company: the browser does not launch (raise); an
\* exception inside the try block (empty); an exception while looking for
\* the search results (error); the page is reached but the HTML cannot be
\* saved (nofile); the HTML is saved, with or without a tax id. pages are
\* the kinds of page the browser can end on: a company page (plain, berlin)
\* or the page of a search without result (noresult).
NorthdataOutcomes(reachable, pages) ==
    {[kind |-> k, page |-> "na"] : k \in {"raise", "empty"}}
    \cup IF reachable
         THEN {[kind |-> "error", page |-> "na"]}
              \cup [kind : {"nofile", "saved", "saved_ust"}, page : pages]
         ELSE {}

\* The dict NorthdataScraper.scrape_company returns.
NorthdataData(o, company_name, registernummer) ==
    IF o.kind = "empty" THEN EmptyDict
    ELSE IF o.kind = "error"
    THEN [company_name |-> Some(company_name),
          registernummer |-> Some(registernummer),
          error |-> Some(<<"click failed">>)]
    ELSE DictUpdate(extract_company_data(NorthdataPage(o.page), registernummer),
                    [html_filepath |->
                        IF o.kind = "nofile" THEN None
                        ELSE Some(NorthdataPath(company_name, registernummer))])

NorthdataWrites(files, o, req, company_name, registernummer) ==
    LET html == NorthdataPath(company_name, registernummer)
    IN  IF o.kind \notin {"saved", "saved_ust"} THEN files
        ELSE [p \in DOMAIN files |->
                IF p = html
                THEN Some(Content(req, company_name, registernummer,
                                  IF o.kind = "saved_ust" THEN Some(UstInNorthdata)
                                  ELSE None,
                                  TRUE))
                ELSE files[p]]

\* LinkedInScraper.scrape_with_playwright: an exception outside the inner
\* try (empty); no logged-in session (nosession); a search without company
\* link (nomatch); the About section of the first company (about).
LinkedInOutcomes(reachable) ==
    {"empty", "nosession"} \cup IF reachable THEN {"nomatch", "about"} ELSE {}

\* data as scrape_with_playwright initialises it (lines 354-361).
LinkedInDefaults(registernummer) ==
    [registernummer |-> Some(registernummer), mitarbeiter |-> None,
     website |-> None, email |-> None, telefonnummer |-> None,
     about_html |-> None]

\* The dict _extract_about_data_playwright returns for the About section of
\* the model: a website and nothing else.
AboutData ==
    [website |-> Some(<<"w">>), telefonnummer |-> None, mitarbeiter |-> None,
     industry |-> None, founded |-> None]

\* The dict LinkedInScraper.scrape_with_playwright returns.
LinkedInData(o, req, company_name, registernummer) ==
    IF o = "empty" THEN EmptyDict
    ELSE IF o \in {"nosession", "nomatch"} THEN LinkedInDefaults(registernummer)
    ELSE DictUpdate(
            DictUpdate(LinkedInDefaults(registernummer),
                       [about_html |->
                           Some(Content(req, company_name, registernummer, None,
                                        TRUE))]),
            AboutData)

\* UnternehmensregisterScraper.scrape_company: any exception (empty); a
\* search without result table and filing (none); the result table and the
\* page of the first annual filing, with or without a tax id.
UnternehmensregisterOutcomes(reachable) ==
    {"empty"} \cup IF reachable THEN {"none", "filing", "filing_ust"} ELSE {}

\* data as _extract_data_from_search_results initialises it (lines 341-349).
UnternehmensregisterDefaults ==
    [registernummer |-> None, mitarbeiter |-> None, umsatz |-> None,
     gewinn |-> None, ust_idnr |-> None, search_results_html |-> None,
     jahresabschluss_html |-> None]

\* The dict UnternehmensregisterScraper.scrape_company returns.
UnternehmensregisterData(o, req, company_name, registernummer) ==
    IF o = "empty" THEN EmptyDict
    ELSE IF o = "none" THEN UnternehmensregisterDefaults
    ELSE DictUpdate(
            UnternehmensregisterDefaults,
            [search_results_html |->
                Some(Content(req, company_name, registernummer, None, TRUE)),
             jahresabschluss_html |->
                Some(Content(req, company_name, registernummer,
                             IF o = "filing_ust"
                             THEN Some(UstInJahresabschluss) ELSE None,
                             TRUE))])

\* What the search of each scraper came to.
SearchOfHandelsregister(o) ==
    CASE o.kind = "found" -> "match"
      [] o.kind = "notfound" -> "nomatch"
      [] OTHER -> "none"

SearchOfNorthdata(o) ==
    CASE o.kind \in {"raise", "empty"} -> "none"
      [] o.page = "noresult" -> "nomatch"
      [] OTHER -> "match"

SearchOfLinkedIn(o) ==
    CASE o = "about" -> "match"
      [] o = "nomatch" -> "nomatch"
      [] o = "nosession" -> "nosession"
      [] OTHER -> "none"

SearchOfUnternehmensregister(o) ==
    CASE o \in {"filing", "filing_ust"} -> "match"
      [] o = "none" -> "nomatch"
      [] OTHER -> "none"

\* ----------------------------------------------------------- crawl_company

\* Steps 4-7 of crawl_company: what each source contributes to files.

\* Reading a file back: os.path.exists, then open/read (and pdfplumber for
\* the PDF). "missing", "error" (the read raises) or "text".
ReadFile(files, path) ==
    IF path \notin DOMAIN files \/ ~IsSome(files[path])
    THEN [kind |-> "missing", text |-> None]
    ELSE IF ~Val(files[path]).ok
    THEN [kind |-> "error", text |-> None]
    ELSE [kind |-> "text", text |-> files[path]]

\* The value the except clause of step 4 assigns on an exception.
HandelsregisterFilesOnError == [pdf |-> None, xml |-> None]

\* handelsregister_files (step 4).
HandelsregisterFiles(files, data, registernummer) ==
    IF ~HasKey(data, "download_directory")
    THEN [pdf |-> None, xml |-> None]
    ELSE LET dir == Val(data.download_directory)
             pdf == ReadFile(files, PdfPath(dir, registernummer))
             xml == ReadFile(files, XmlPath(dir, registernummer))
         IN  IF pdf.kind = "error" \/ xml.kind = "error"
             THEN HandelsregisterFilesOnError
             ELSE [pdf |-> pdf.text, xml |-> xml.text]

\* northdata_files (step 5).
NorthdataFiles(files, data) ==
    IF HasKey(data, "html_filepath") /\ Truthy(data.html_filepath)
    THEN LET html == ReadFile(files, Val(data.html_filepath))
         IN  [html |-> html.text]
    ELSE [html |-> None]

\* linkedin_files (step 6).
LinkedInFiles(data) ==
    IF HasKey(data, "about_html") /\ IsSome(data.about_html)
    THEN [about_html |-> data.about_html]
    ELSE [about_html |-> None]

\* unternehmensregister_files (step 7).
UnternehmensregisterFiles(data) ==
    IF HasKey(data, "jahresabschluss_html") /\ IsSome(data.jahresabschluss_html)
    THEN [jahresabschluss_html |-> data.jahresabschluss_html]
    ELSE [jahresabschluss_html |-> None]

\* An extraction that looks at the aggregator's page first.
ExtractUstAggregatorFirst(final_ust, hfiles, nfiles, ufiles) ==
    IF Truthy(final_ust) THEN None
    ELSE IF IsSome(nfiles.html) /\ IsSome(SearchUst(Val(nfiles.html)))
    THEN SearchUst(Val(nfiles.html))
    ELSE IF IsSome(hfiles.xml) /\ IsSome(SearchUst(Val(hfiles.xml)))
    THEN SearchUst(Val(hfiles.xml))
    ELSE None

\* extracted_ust_idnr (step 8): the first source, in the order registry XML,
\* aggregator HTML, federal-register HTML, whose artifact holds a tax id.
ExtractUst(final_ust, hfiles, nfiles, ufiles) ==
    IF Truthy(final_ust) THEN None
    ELSE IF IsSome(hfiles.xml) /\ IsSome(SearchUst(Val(hfiles.xml)))
    THEN SearchUst(Val(hfiles.xml))
    ELSE IF IsSome(nfiles.html) /\ IsSome(SearchUst(Val(nfiles.html)))
    THEN SearchUst(Val(nfiles.html))
    ELSE IF IsSome(ufiles.jahresabschluss_html)
            /\ IsSome(SearchUst(Val(ufiles.jahresabschluss_html)))
    THEN SearchUst(Val(ufiles.jahresabschluss_html))
    ELSE None

\* A Python value with its type, as pydantic sees it.
PyDict(d) == [py_type |-> "dict", v |-> d]

PyStr(x) == [py_type |-> "str", v |-> x]

\* all_files (step 9), with the extracted tax id added under its own key.
AllFiles(hfiles, nfiles, lfiles, ufiles, extracted) ==
    LET base == [handelsregister |-> PyDict(hfiles),
                 northdata |-> PyDict(nfiles),
                 linkedin |-> PyDict(lfiles),
                 unternehmensregister |-> PyDict(ufiles)]
    IN  IF IsSome(extracted)
        THEN [k \in DOMAIN base \cup {"extracted_ust_idnr"} |->
                IF k = "extracted_ust_idnr" THEN PyStr(Val(extracted))
                ELSE base[k]]
        ELSE base

\* A response model whose files accepts any value.
FilesAnyValue(all_files) == TRUE

\* Validation of files: Dict[str, Dict[str, Optional[str]]].
FilesValid(all_files) == \A k \in DOMAIN all_files : all_files[k].py_type = "dict"

\* The files of the response of the except clause.
ErrorFiles ==
    [handelsregister |-> [pdf |-> None, xml |-> None],
     northdata |-> [html |-> None],
     linkedin |-> [about_html |-> None],
     unternehmensregister |-> [jahresabschluss_html |-> None]]

\* An except clause that forgets the error message.
ErrorResponseNoMessage(req, message) ==
    [status |-> 200,
     company_name |-> req.company_name,
     registernummer |-> req.registernummer,
     files |-> ErrorFiles,
     success |-> FALSE,
     error |-> None]

\* The response of the except clause of crawl_company.
ErrorResponse(req, message) ==
    [status |-> 200,
     company_name |-> req.company_name,
     registernummer |-> req.registernummer,
     files |-> ErrorFiles,
     success |-> FALSE,
     error |-> Some(message)]

\* The response a request body that fails CompanyRequest's validation gets.
ValidationErrorResponse == [status |-> 422]

\* CompanyRequest: company_name and registernummer are required strings.
CompanyRequestValid(req) == IsSome(req.company_name) /\ IsSome(req.registernummer)

\* final_ust_idnr: the request's value unless blank, else the file's.
FinalUst(request_ust, ust_from_file) ==
    IF Truthy(request_ust) /\ Strip(Val(request_ust)) # <<>>
    THEN request_ust
    ELSE ust_from_file

\* Steps 4-9 and the construction of the response: the response, or the
\* message of the exception CompanyResponse raises.
BuildResponse(req, final_ust, files, results) ==
    LET hfiles == HandelsregisterFiles(files, results["handelsregister"],
                                       Val(req.registernummer))
        nfiles == NorthdataFiles(files, results["northdata"])
        lfiles == LinkedInFiles(results["linkedin"])
        ufiles == UnternehmensregisterFiles(results["unternehmensregister"])
        extracted == ExtractUst(final_ust, hfiles, nfiles, ufiles)
        all_files == AllFiles(hfiles, nfiles, lfiles, ufiles, extracted)
    IN  IF FilesValid(all_files)
        THEN [status |-> 200,
              company_name |-> req.company_name,
              registernummer |-> req.registernummer,
              files |-> [k \in DOMAIN all_files |-> all_files[k].v],
              success |-> TRUE,
              error |-> None]
        ELSE ErrorResponse(req, "ValidationError")

\* ------------------------------------------------------------ helper calls

\* The longest run of digits of the register numbers and amounts tried.
MaxDigits == 2

\* The digits register numbers are written with here.
RegDigits == {"0", "1", "7"}

\* The strings of at most n characters of the set chars.
RECURSIVE StringsUpTo(_, _)
StringsUpTo(chars, n) ==
    IF n = 0 THEN {<<>>}
    ELSE LET shorter == StringsUpTo(chars, n - 1)
         IN  shorter \cup {<<c>> \o s : c \in chars, s \in {t \in shorter : Len(t) = n - 1}}

\* types of _get_register_type and the list _get_register_number runs
\* through, in their order.
RegisterTypeOrder ==
    <<HRB, <<"H", "R", "A">>, <<"G", "n", "R">>, <<"P", "R">>, <<"V", "R">>,
      <<"G", "s", "R">>>>

\* The loop of both helpers: the first code registernummer starts with.
RECURSIVE FirstPrefix(_, _)
FirstPrefix(registernummer, types) ==
    IF types = <<>> THEN None
    ELSE IF StartsWith(registernummer, Head(types)) THEN Some(Head(types))
    ELSE FirstPrefix(registernummer, Tail(types))

\* _get_register_type: the code found, 'HRB' when there is none.
get_register_type(registernummer) ==
    LET reg_type == FirstPrefix(registernummer, RegisterTypeOrder)
    IN  IF IsSome(reg_type) THEN Val(reg_type) ELSE HRB

\* A helper that cuts three characters whatever the code.
get_register_number_three(registernummer) ==
    SubSeq(registernummer, 4, Len(registernummer))

\* _get_register_number: registernummer[len(reg_type):], or the whole string.
get_register_number(registernummer) ==
    LET reg_type == FirstPrefix(registernummer, RegisterTypeOrder)
    IN  IF IsSome(reg_type)
        THEN SubSeq(registernummer, Len(Val(reg_type)) + 1, Len(registernummer))
        ELSE registernummer

\* register_number of UnternehmensregisterScraper.scrape_company (line 221):
\* registernummer.replace("HRB", "").replace(" ", "").strip().
TypedRegisterNumber(registernummer) ==
    Strip(Replace(Replace(registernummer, HRB, <<>>), <<" ">>, <<>>))

\* max_retries of the 'Erweiterte Suche' click.
max_retries == 3

\* A loop that goes on to the form after the last failed attempt.
AfterFailedClickGoOn(attempt) ==
    IF attempt = max_retries - 1 THEN "fill" ELSE "click"

\* The except clause of the retry loop (lines 172-176): raise on the last
\* attempt, else try again.
AfterFailedClick(attempt) ==
    IF attempt = max_retries - 1 THEN "except" ELSE "click"

\* A float, by its decimal expansion: sign, integer digits without leading
\* zeros and fraction digits without trailing zeros (1100.50 is "1100" and
\* "5"). Equal floats have equal expansions.
RECURSIVE StripLeadingZeros(_)
StripLeadingZeros(digits) ==
    IF digits # <<>> /\ Head(digits) = "0" THEN StripLeadingZeros(Tail(digits))
    ELSE digits

RECURSIVE StripTrailingZeros(_)
StripTrailingZeros(digits) ==
    IF digits # <<>> /\ digits[Len(digits)] = "0"
    THEN StripTrailingZeros(SubSeq(digits, 1, Len(digits) - 1))
    ELSE digits

Float(negative, int, frac) ==
    [negative |-> negative, int |-> StripLeadingZeros(int),
     frac |-> StripTrailingZeros(frac)]

\* The characters of s that are in chars, in their order.
RECURSIVE Keep(_, _)
Keep(s, chars) ==
    IF s = <<>> THEN <<>>
    ELSE (IF Head(s) \in chars THEN <<Head(s)>> ELSE <<>>) \o Keep(Tail(s), chars)

\* The position of the first c in s, 0 when there is none.
RECURSIVE Find(_, _)
Find(s, c) ==
    IF s = <<>> THEN 0
    ELSE IF Head(s) = c THEN 1
    ELSE LET rest == Find(Tail(s), c) IN IF rest = 0 THEN 0 ELSE rest + 1

\* float(s) for a string of digits and dots: None stands for ValueError,
\* which digits around more than one dot, or no digit at all, raise.
float(s) ==
    LET dot == Find(s, ".")
        int == IF dot = 0 THEN s ELSE SubSeq(s, 1, dot - 1)
        frac == IF dot = 0 THEN <<>> ELSE SubSeq(s, dot + 1, Len(s))
    IN  IF Keep(s, Digits) = <<>> \/ Find(frac, ".") # 0 \/ Keep(s, Digits \cup {"."}) # s
        THEN None
        ELSE Some(Float(FALSE, int, frac))

\* A cleaning that leaves the thousands separators in.
ThousandsKept(cleaned) == cleaned

\* cleaned.replace('.', '') (line 198).
ThousandsRemoved(cleaned) == Replace(cleaned, <<".">>, <<>>)

\* PDFDataExtractor._clean_number (lines 189-203): None when float raises.
clean_number(value) ==
    LET cleaned == Keep(value, Digits \cup {",", "."})
        decimal == Replace(ThousandsRemoved(cleaned), <<",">>, <<".">>)
    IN  float(decimal)

\* The most groups of three digits an amount has.
MaxGroups == 2

\* Amounts in the German format (11.100.000,00): leading digits, groups of
\* three digits after a dot each, and two decimals after a comma or none.
Amounts ==
    [lead : {s \in StringsUpTo({"0", "1"}, MaxDigits) : s # <<>> /\ Head(s) = "1"},
     groups : StringsUpTo({<<"0", "0", "0">>, <<"1", "0", "0">>, <<"0", "1", "1">>},
                          MaxGroups),
     decimals : {<<>>, <<"0", "0">>, <<"1", "0">>, <<"0", "1">>}]

\* The currency markers that follow an amount.
Markers == {<<>>, <<"E", "U", "R">>, <<" ", "E", "U", "R">>}

\* The strings of a sequence one after the other, sep before each.
RECURSIVE Joined(_, _)
Joined(strings, sep) ==
    IF strings = <<>> THEN <<>>
    ELSE sep \o Head(strings) \o Joined(Tail(strings), sep)

\* An amount as the documents write it.
Written(a, marker) ==
    a.lead \o Joined(a.groups, <<".">>)
    \o (IF a.decimals = <<>> THEN <<>> ELSE <<",">> \o a.decimals) \o marker

\* Page texts of the aggregator site: digits, blanks and punctuation are
\* characters; the words the extractors look for ("UMSATZ", "GEWINN",
\* "VERLUST", "Mio", "Finanzanlagen") and the euro sign, written "(euro)",
\* are one element each.

\* The length of the run of characters of chars that starts at position i.
RECURSIVE Run(_, _, _)
Run(s, i, chars) ==
    IF i <= Len(s) /\ s[i] \in chars THEN 1 + Run(s, i + 1, chars) ELSE 0

\* The length of the match of \d+[.,]\d+ at position i, 0 when there is none.
DecimalAt(s, i) ==
    LET whole == Run(s, i, Digits)
        decimal == Run(s, i + whole + 1, Digits)
    IN  IF whole > 0 /\ i + whole <= Len(s) /\ s[i + whole] \in {".", ","}
           /\ decimal > 0
        THEN whole + 1 + decimal
        ELSE 0

\* The match at the first of the positions, None when there is none: the
\* decimal there, or the run of digits there (whole).
Group(s, positions, whole) ==
    IF positions = {} THEN None
    ELSE LET i == CHOOSE p \in positions : \A q \in positions : p <= q
             n == IF whole THEN Run(s, i, Digits) ELSE DecimalAt(s, i)
         IN  Some(SubSeq(s, i, i + n - 1))

\* The position after the blanks that follow the n characters at i.
AfterBlanks(s, i, n) == i + n + Run(s, i + n, {" ", "\n"})

\* (\d+[.,]\d+)\s*Mio
DecimalMio(s) ==
    Group(s, {i \in 1..Len(s) :
                /\ DecimalAt(s, i) > 0
                /\ AfterBlanks(s, i, DecimalAt(s, i)) <= Len(s)
                /\ s[AfterBlanks(s, i, DecimalAt(s, i))] = "Mio"}, FALSE)

\* section.*?(\d+[.,]\d+): the first decimal after the first section word
\* that has one on its line.
DecimalAfter(s, section) ==
    LET starts == {k \in 1..Len(s) :
                      /\ s[k] = section
                      /\ \E i \in (k + 1)..Len(s) :
                            /\ DecimalAt(s, i) > 0
                            /\ \A m \in k..(i - 1) : s[m] # "\n"}
    IN  Group(s, {i \in 1..Len(s) :
                    /\ DecimalAt(s, i) > 0
                    /\ \E k \in starts : k < i}, FALSE)

\* word is in s at position i or later, with no line break before it.
LaterOnLine(s, i, word) ==
    \E j \in i..Len(s) : s[j] = word /\ \A k \in i..(j - 1) : s[k] # "\n"

\* (\d+[.,]\d+).*?Mio.*?(euro sign)
DecimalMioEuro(s) ==
    Group(s, {i \in 1..Len(s) :
                /\ DecimalAt(s, i) > 0
                /\ \E j \in (i + DecimalAt(s, i))..Len(s) :
                      /\ s[j] = "Mio"
                      /\ \A k \in i..j : s[k] # "\n"
                      /\ LaterOnLine(s, j + 1, "(euro)")}, FALSE)

\* (\d+[.,]\d+)\s*Mio\.\s*(euro sign).*?Finanzanlagen
DecimalMioEuroFinanzanlagen(s) ==
    Group(s, {i \in 1..Len(s) :
                /\ DecimalAt(s, i) > 0
                /\ LET j == AfterBlanks(s, i, DecimalAt(s, i))
                       e == AfterBlanks(s, j, 2)
                   IN  /\ e <= Len(s)
                       /\ s[j] = "Mio"
                       /\ s[j + 1] = "."
                       /\ s[e] = "(euro)"
                       /\ LaterOnLine(s, e + 1, "Finanzanlagen")}, FALSE)

\* float(num_str.replace(',', '.')) of a matched group; None when nothing
\* matched or float raised.
GroupToFloat(group) ==
    IF IsSome(group) THEN float(Replace(Val(group), <<",">>, <<".">>)) ELSE None

\* The first of a list of results that is a number.
RECURSIVE FirstSome(_)
FirstSome(results) ==
    IF results = <<>> THEN None
    ELSE IF IsSome(Head(results)) THEN Head(results)
    ELSE FirstSome(Tail(results))

\* Mio\\.?\s*(euro sign) at position j: the pattern is a raw string, so
\* "\\" asks for a backslash after Mio, then any one character or none.
MioBackslashEuro(s, j) ==
    /\ j + 1 <= Len(s)
    /\ s[j] = "Mio"
    /\ s[j + 1] = "\\"
    /\ \E any \in {0, 1} :
          /\ j + 1 + any <= Len(s)
          /\ AfterBlanks(s, j, 2 + any) <= Len(s)
          /\ s[AfterBlanks(s, j, 2 + any)] = "(euro)"

\* (\d+)[.,](\d+)\s*Mio\\.?\s*(euro sign), after a "-" when minus: the
\* two groups, which the extractors put together again with a point.
DecimalMioBackslash(s, minus) ==
    Group(s, {i \in 1..Len(s) :
                /\ minus => (i > 1 /\ s[i - 1] = "-")
                /\ DecimalAt(s, i) > 0
                /\ MioBackslashEuro(s, AfterBlanks(s, i, DecimalAt(s, i)))}, FALSE)

\* (\d+)\s*Mio\\.?\s*(euro sign)
WholeMioBackslash(s) ==
    Group(s, {i \in 1..Len(s) :
                /\ Run(s, i, Digits) > 0
                /\ MioBackslashEuro(s, AfterBlanks(s, i, Run(s, i, Digits)))}, TRUE)

\* (\d+)\s*Millionen
WholeMillionen(s) ==
    Group(s, {i \in 1..Len(s) :
                /\ Run(s, i, Digits) > 0
                /\ AfterBlanks(s, i, Run(s, i, Digits)) <= Len(s)
                /\ s[AfterBlanks(s, i, Run(s, i, Digits))] = "Millionen"}, TRUE)

\* NorthdataScraper._extract_umsatz (lines 347-419) on a page that shows
\* its text only: none of the fallback selectors finds a visible element.
extract_umsatz(page_content) ==
    IF Contains(page_content, <<"UMS(Ae)TZ">>) \/ Contains(page_content, <<"UMSATZ">>)
    THEN FirstSome(<<GroupToFloat(DecimalMioBackslash(page_content, FALSE)),
                     GroupToFloat(WholeMioBackslash(page_content)),
                     GroupToFloat(DecimalMio(page_content)),
                     GroupToFloat(WholeMillionen(page_content)),
                     GroupToFloat(DecimalAfter(page_content, "UMS(Ae)TZ")),
                     GroupToFloat(DecimalMioEuro(page_content))>>)
    ELSE None

\* NorthdataScraper._extract_gewinn (lines 421-496), on such a page.
extract_gewinn(page_content) ==
    IF Contains(page_content, <<"GEWINN">>)
    THEN LET decimal == GroupToFloat(DecimalMioBackslash(page_content, FALSE))
             whole == GroupToFloat(WholeMioBackslash(page_content))
             minus == GroupToFloat(DecimalMioBackslash(page_content, TRUE))
             value == FirstSome(<<decimal, whole, minus,
                                  GroupToFloat(DecimalAfter(page_content, "GEWINN")),
                                  GroupToFloat(DecimalAfter(page_content, "VERLUST")),
                                  GroupToFloat(DecimalMioEuro(page_content))>>)
             is_loss == \/ Contains(page_content, <<"VERLUST">>)
                        \/ Contains(page_content, <<"Verlust">>)
                        \/ (~IsSome(decimal) /\ ~IsSome(whole) /\ IsSome(minus))
         IN  IF IsSome(value) /\ is_loss
             THEN Some([Val(value) EXCEPT !.negative = ~@])
             ELSE value
    ELSE None

\* NorthdataScraper._extract_gesamtwert_immobilien (lines 666-686).
extract_gesamtwert_immobilien(page_content) ==
    GroupToFloat(DecimalMioEuroFinanzanlagen(page_content))

\* Amounts in millions as the aggregator's pages show them: the word of the
\* section, "2,1 Mio. (euro)", and "Finanzanlagen" after it or not.
AmountPages ==
    [section : {<<"UMSATZ">>, <<"GEWINN">>, <<"GEWINN", " ", "VERLUST">>},
     whole : StringsUpTo({"1", "2"}, MaxDigits) \ {<<>>},
     decimal : {<<"1">>, <<"2">>},
     tail : {<<>>, <<" ", "Finanzanlagen">>}]

\* page.content() of such a page.
AmountPage(p) ==
    p.section \o <<" ">> \o p.whole \o <<",">> \o p.decimal
    \o <<" ", "Mio", ".", " ", "(euro)">> \o p.tail

\* How often the user answers 'y' to "try again?".
MaxLoginRetries == 2

\* base_url of LinkedInScraper. URLs are sequences of their parts.
base_url == <<"https://www.linkedin.com">>

\* The pages the browser can be on when the user presses Enter: the login
\* page, the feed and a profile (both with the search box of a logged-in
\* user), the public home page, a security check, and the blank page the
\* browser starts on when the navigation to the login page failed.
LoginPages ==
    {[url |-> base_url \o <<"/login">>, search_box |-> FALSE],
     [url |-> base_url \o <<"/feed", "/">>, search_box |-> TRUE],
     [url |-> base_url \o <<"/in/", "ab">>, search_box |-> TRUE],
     [url |-> base_url \o <<"/">>, search_box |-> FALSE],
     [url |-> base_url \o <<"/checkpoint">>, search_box |-> FALSE],
     [url |-> <<"about:blank">>, search_box |-> FALSE]}

\* is_logged_in (lines 131-149): is_logged_in_by_url, or the search box is
\* visible.
is_logged_in(page) ==
    \/ Contains(page.url, <<"/feed">>)
    \/ Contains(page.url, <<"/in/">>)
    \/ /\ Contains(page.url, base_url)
       /\ ~Contains(page.url, <<"/login">>)
       /\ page.url # base_url \o <<"/">>
    \/ page.search_box

\* -------------------------------------------------------------------- state

VARIABLES
    env,            \* the surroundings of a run: the request bodies clients
                    \* send, how many requests arrive, the sites in reach
    companies,      \* data/companies.json
    fs,             \* the files under data/companies/: path -> content or None
    reqNo,          \* number of requests received so far
    request,        \* the request crawl_company is handling
    pc,             \* where crawl_company stands
    final_ust_idnr, \* its local final_ust_idnr
    task,           \* state of the four futures
    result,         \* value of each returned future
    search,         \* what each scraper's search came to in this request:
                    \* "none" (no search made), "nosession" (none made for
                    \* want of a logged-in session), "nomatch" or "match"
    exc,            \* the exception crawl_company is unwinding with, or None
    response,       \* the response of the last request, None while handling
    call            \* a scraper helper run on its own: which one, its
                    \* arguments, its locals and what it returned

vars ==
    <<env, companies, fs, reqNo, request, pc, final_ust_idnr, task, result,
      search, exc, response, call>>

\* No helper is run on its own.
NoCall == [op |-> "none"]

\* Positions of crawl_company.
Idle == [at |-> "idle", i |-> 0]

At(where, i) == [at |-> where, i |-> i]

\* The states in which a future is done.
Terminal == {"returned", "raised"}

\* A single request of any kind with every site in reach, or repeated
\* requests for one register number while only the registry portal and the
\* aggregator site are in reach; in both the registry's documents hold none
\* of the fields the extractors look for. Or a single request for a company
\* whose documents hold them.
Environments ==
    {[clients |-> Requests, limit |-> 1, reachable |-> Sources,
      pdfs |-> {"ok", "bad"}, xmls |-> {"ok", "ust"}, pages |-> {"plain"}],
     [clients |-> RepeatRequests, limit |-> MaxRequests,
      reachable |-> {"handelsregister", "northdata"},
      pdfs |-> {"ok", "bad"}, xmls |-> {"ok", "ust"}, pages |-> {"plain"}],
     [clients |-> {FieldsRequest}, limit |-> 1,
      reachable |-> {"handelsregister", "northdata"},
      pdfs |-> {"berlin", "bad"}, xmls |-> {"hamburg", "partial", "bad"},
      pages |-> {"berlin", "noresult"}]}

Init ==
    /\ env \in Environments
    /\ companies \in CompaniesFiles
    /\ fs = [p \in Paths |-> None]
    /\ reqNo = 0
    /\ request = [company_name |-> None, registernummer |-> None, ust_idnr |-> None]
    /\ pc = Idle
    /\ final_ust_idnr = None
    /\ task = [s \in Sources |-> "unsubmitted"]
    /\ result = [s \in Sources |-> EmptyDict]
    /\ search = [s \in Sources |-> "none"]
    /\ exc = None
    /\ response = None
    /\ call = NoCall

\* A handler that waits for each scraper right after submitting it.
AfterSubmitAwaitAtOnce(i) == At("await", i)

\* Control flow of the with block: the four submits, then the four awaits.
AfterSubmit(i) == IF i < Len(Order) THEN At("submit", i + 1) ELSE At("await", 1)

AfterAwait(i) == IF i < Len(Order) THEN At("await", i + 1) ELSE At("exit_with", 0)

\* An executor shut down with wait=False.
ShutdownNoWait(tasks) == TRUE

\* ThreadPoolExecutor.__exit__ is shutdown(wait=True): it returns once every
\* submitted future is done, also when the block is left by an exception.
ShutdownDone(tasks) == \A s \in Sources : tasks[s] \in Terminal \cup {"unsubmitted"}

\* A request arrives: FastAPI validates the body, then crawl_company runs
\* get_company_ust_idnr and computes final_ust_idnr (lines 114-127).
Receive ==
    /\ pc = Idle
    /\ reqNo < env.limit
    /\ \E req \in env.clients :
        /\ request' = req
        /\ reqNo' = reqNo + 1
        /\ task' = [s \in Sources |-> "unsubmitted"]
        /\ result' = [s \in Sources |-> EmptyDict]
        /\ search' = [s \in Sources |-> "none"]
        /\ IF ~CompanyRequestValid(req)
           THEN /\ response' = Some(ValidationErrorResponse)
                /\ pc' = Idle
                /\ exc' = None
                /\ final_ust_idnr' = None
           ELSE LET found == get_company_ust_idnr(companies,
                                 Val(req.company_name), Val(req.registernummer))
                IN  /\ response' = None
                    /\ IF found.kind = "raise"
                       THEN /\ exc' = Some("AttributeError")
                            /\ pc' = At("except", 0)
                            /\ final_ust_idnr' = None
                       ELSE /\ exc' = None
                            /\ pc' = At("submit", 1)
                            /\ final_ust_idnr' = FinalUst(req.ust_idnr, found.value)
    /\ UNCHANGED <<call, env, companies, fs>>

\* executor.submit of the next scraper (lines 131-157).
Submit ==
    /\ pc.at = "submit"
    /\ task' = [task EXCEPT ![Order[pc.i]] = "running"]
    /\ pc' = AfterSubmit(pc.i)
    /\ UNCHANGED <<call, env, companies, fs, reqNo, request, final_ust_idnr, result,
                   search, exc, response>>

\* A pool thread runs HandelsregisterScraper.scrape_company to its end.
RunHandelsregister ==
    /\ task["handelsregister"] = "running"
    /\ \E o \in HandelsregisterOutcomes("handelsregister" \in env.reachable,
                                         env.pdfs, env.xmls) :
        /\ task' = [task EXCEPT !["handelsregister"] =
                        IF o.kind = "raise" THEN "raised" ELSE "returned"]
        /\ fs' = HandelsregisterWrites(fs, o, reqNo, Val(request.company_name),
                                       Val(request.registernummer))
        /\ result' = [result EXCEPT !["handelsregister"] =
                        IF o.kind = "raise" THEN EmptyDict
                        ELSE HandelsregisterData(fs', o, Val(request.registernummer))]
        /\ search' = [search EXCEPT !["handelsregister"] = SearchOfHandelsregister(o)]
    /\ UNCHANGED <<call, env, companies, reqNo, request, pc, final_ust_idnr, exc, response>>

\* A pool thread runs NorthdataScraper.scrape_company to its end.
RunNorthdata ==
    /\ task["northdata"] = "running"
    /\ \E o \in NorthdataOutcomes("northdata" \in env.reachable, env.pages) :
        /\ task' = [task EXCEPT !["northdata"] =
                        IF o.kind = "raise" THEN "raised" ELSE "returned"]
        /\ search' = [search EXCEPT !["northdata"] = SearchOfNorthdata(o)]
        /\ result' = [result EXCEPT !["northdata"] =
                        IF o.kind = "raise" THEN EmptyDict
                        ELSE NorthdataData(o, Val(request.company_name),
                                           Val(request.registernummer))]
        /\ fs' = NorthdataWrites(fs, o, reqNo, Val(request.company_name),
                                 Val(request.registernummer))
    /\ UNCHANGED <<call, env, companies, reqNo, request, pc, final_ust_idnr, exc, response>>

\* A pool thread runs LinkedInScraper.scrape_with_selenium to its end.
RunLinkedIn ==
    /\ task["linkedin"] = "running"
    /\ \E o \in LinkedInOutcomes("linkedin" \in env.reachable) :
        /\ task' = [task EXCEPT !["linkedin"] = "returned"]
        /\ result' = [result EXCEPT !["linkedin"] =
                        LinkedInData(o, reqNo, Val(request.company_name),
                                     Val(request.registernummer))]
        /\ search' = [search EXCEPT !["linkedin"] = SearchOfLinkedIn(o)]
    /\ UNCHANGED <<call, env, companies, fs, reqNo, request, pc, final_ust_idnr, exc,
                   response>>

\* A pool thread runs UnternehmensregisterScraper.scrape_company to its end.
RunUnternehmensregister ==
    /\ task["unternehmensregister"] = "running"
    /\ \E o \in UnternehmensregisterOutcomes("unternehmensregister" \in env.reachable) :
        /\ task' = [task EXCEPT !["unternehmensregister"] = "returned"]
        /\ result' = [result EXCEPT !["unternehmensregister"] =
                        UnternehmensregisterData(o, reqNo,
                                                 Val(request.company_name),
                                                 Val(request.registernummer))]
        /\ search' = [search EXCEPT !["unternehmensregister"] =
                          SearchOfUnternehmensregister(o)]
    /\ UNCHANGED <<call, env, companies, fs, reqNo, request, pc, final_ust_idnr, exc,
                   response>>

\* future.result() of the next future (lines 160-163): blocks until it is
\* done, and re-raises what the scraper raised.
Await ==
    /\ pc.at = "await"
    /\ task[Order[pc.i]] \in Terminal
    /\ IF task[Order[pc.i]] = "raised"
       THEN /\ exc' = Some("scraper raised")
            /\ pc' = At("exit_with", 0)
       ELSE /\ exc' = exc
            /\ pc' = AfterAwait(pc.i)
    /\ UNCHANGED <<call, env, companies, fs, reqNo, request, final_ust_idnr, task, result,
                   search, response>>

\* The end of the with block (line 129): the executor shuts down.
ExitWith ==
    /\ pc.at = "exit_with"
    /\ ShutdownDone(task)
    /\ pc' = IF IsSome(exc) THEN At("except", 0) ELSE At("process", 0)
    /\ UNCHANGED <<call, env, companies, fs, reqNo, request, final_ust_idnr, task,
                   result, search, exc, response>>

\* Steps 4-9 and the return (lines 165-335); an exception raised by the
\* construction of the response is handled by the except clause.
Process ==
    /\ pc.at = "process"
    /\ response' = Some(BuildResponse(request, final_ust_idnr, fs, result))
    /\ pc' = Idle
    /\ UNCHANGED <<call, env, companies, fs, reqNo, request, final_ust_idnr, task, result,
                   search, exc>>

\* The except clause (lines 337-350).
Except ==
    /\ pc.at = "except"
    /\ response' = Some(ErrorResponse(request, Val(exc)))
    /\ pc' = Idle
    /\ UNCHANGED <<call, env, companies, fs, reqNo, request, final_ust_idnr, task, result,
                   search, exc>>

Next ==
    \/ Receive
    \/ Submit
    \/ RunHandelsregister
    \/ RunNorthdata
    \/ RunLinkedIn
    \/ RunUnternehmensregister
    \/ Await
    \/ ExitWith
    \/ Process
    \/ Except

Spec == Init /\ [][Next]_vars

\* The scrapers the pool is sure to run to their end, the handler's own
\* steps: weak fairness for each. Nothing bounds the time the registry
\* scraper takes (future.result() is called without a timeout), so its end
\* is not assumed.
FairSpec ==
    /\ Spec
    /\ WF_vars(Submit)
    /\ WF_vars(RunNorthdata)
    /\ WF_vars(RunLinkedIn)
    /\ WF_vars(RunUnternehmensregister)
    /\ WF_vars(Await)
    /\ WF_vars(ExitWith)
    /\ WF_vars(Process)
    /\ WF_vars(Except)

\* ------------------------------------------------- helpers run on their own

\* The helper calls made, each about to run: _fill_search_form and
\* UnternehmensregisterScraper.scrape_company on a register number (every
\* code followed by digits, the codes alone, numbers without a code),
\* _clean_number on a written amount, _extract_company_data on a page, and
\* setup_login_session. In scrape_company attempt is the loop variable,
\* clicks the outcome of each attempt made, typed what was typed into the
\* register-number field; in setup_login_session retries counts the user's
\* 'y' answers, detected is is_logged_in of the last check, saved tells
\* whether the session storage file has been written.
HelperCalls ==
    LET regs == {t \o d : t \in RegisterTypes, d \in StringsUpTo(RegDigits, MaxDigits)}
                \cup (StringsUpTo(RegDigits, MaxDigits) \ {<<>>})
    IN  {[op |-> "fill_search_form", pc |-> "called", registernummer |-> r] :
            r \in regs}
        \cup {[op |-> "unternehmensregister", pc |-> "click", registernummer |-> r,
               attempt |-> 0, clicks |-> <<>>, typed |-> None, returned |-> None] :
                 r \in regs}
        \cup {[op |-> "clean_number", pc |-> "called", value |-> Written(a, m)] :
                 a \in Amounts, m \in Markers}
        \cup {[op |-> "extract_amounts", pc |-> "called",
               page_content |-> AmountPage(p)] : p \in AmountPages}
        \cup {[op |-> "setup_login_session", pc |-> "wait_for_manual_login",
               first_time |-> TRUE, retries |-> 0, detected |-> FALSE,
               saved |-> FALSE, returned |-> None]}

\* The server receives nothing while a helper is run.
HelperInit ==
    /\ env = [clients |-> {}, limit |-> 0, reachable |-> {}, pdfs |-> {},
              xmls |-> {}, pages |-> {}]
    /\ companies = None
    /\ fs = [p \in Paths |-> None]
    /\ reqNo = 0
    /\ request = [company_name |-> None, registernummer |-> None, ust_idnr |-> None]
    /\ pc = Idle
    /\ final_ust_idnr = None
    /\ task = [s \in Sources |-> "unsubmitted"]
    /\ result = [s \in Sources |-> EmptyDict]
    /\ search = [s \in Sources |-> "none"]
    /\ exc = None
    /\ response = None
    /\ call \in HelperCalls

\* What a helper call leaves alone.
server == <<env, companies, fs, reqNo, request, pc, final_ust_idnr, task, result,
            search, exc, response>>

\* _fill_search_form (lines 149-169): the register type it selects and the
\* register number it fills in.
FillSearchForm ==
    /\ call.op = "fill_search_form"
    /\ call.pc = "called"
    /\ call' = [op |-> "fill_search_form", pc |-> "done",
                registernummer |-> call.registernummer,
                register_type |-> get_register_type(call.registernummer),
                register_number |-> get_register_number(call.registernummer)]
    /\ UNCHANGED server

\* One attempt of the retry loop (lines 152-176): the click goes through and
\* the loop breaks, or it raises and the except clause decides.
ClickErweiterteSuche ==
    /\ call.op = "unternehmensregister"
    /\ call.pc = "click"
    /\ \E clicked \in BOOLEAN :
        call' = [call EXCEPT
                    !.clicks = Append(@, clicked),
                    !.attempt = IF clicked \/ @ = max_retries - 1 THEN @ ELSE @ + 1,
                    !.pc = IF clicked THEN "fill" ELSE AfterFailedClick(call.attempt)]
    /\ UNCHANGED server

\* Steps 3-5 (lines 178-262): the company name is entered, which raises when
\* its field is not found, then the register number is typed, the search is
\* started and the result page is read.
FillUnternehmensregisterForm ==
    /\ call.op = "unternehmensregister"
    /\ call.pc = "fill"
    /\ \E field_found \in BOOLEAN :
        call' = IF field_found
                THEN [call EXCEPT
                        !.typed = Some(TypedRegisterNumber(call.registernummer)),
                        !.returned = Some(UnternehmensregisterDefaults),
                        !.pc = "done"]
                ELSE [call EXCEPT !.pc = "except"]
    /\ UNCHANGED server

\* The except clause of scrape_company (lines 265-269): return {}.
UnternehmensregisterExcept ==
    /\ call.op = "unternehmensregister"
    /\ call.pc = "except"
    /\ call' = [call EXCEPT !.returned = Some(EmptyDict), !.pc = "done"]
    /\ UNCHANGED server

\* _extract_with_patterns cleans the capital it matched (lines 126-127).
CleanNumber ==
    /\ call.op = "clean_number"
    /\ call.pc = "called"
    /\ call' = [op |-> "clean_number", pc |-> "done", value |-> call.value,
                returned |-> clean_number(call.value)]
    /\ UNCHANGED server

\* _extract_company_data (lines 237-281) as far as the amounts go: umsatz,
\* gewinn and gesamtwert_immobilien of the page.
ExtractAmounts ==
    /\ call.op = "extract_amounts"
    /\ call.pc = "called"
    /\ call' = [op |-> "extract_amounts", pc |-> "done",
                page_content |-> call.page_content,
                umsatz |-> extract_umsatz(call.page_content),
                gewinn |-> extract_gewinn(call.page_content),
                gesamtwert_immobilien |->
                    extract_gesamtwert_immobilien(call.page_content)]
    /\ UNCHANGED server

\* wait_for_manual_login (lines 103-164): the user presses Enter on some
\* page, or interrupts; on the login page without a login seen (line 152)
\* the user is asked whether to try again, and 'y' calls the method again.
WaitForManualLogin ==
    /\ call.op = "setup_login_session"
    /\ call.pc = "wait_for_manual_login"
    /\ \E page \in LoginPages, retry \in BOOLEAN, interrupt \in BOOLEAN :
        call' =
            IF interrupt
            THEN [call EXCEPT !.pc = "done", !.returned = Some(FALSE)]
            ELSE IF ~(Contains(page.url, <<"/login">>) /\ ~is_logged_in(page))
            THEN [call EXCEPT !.detected = is_logged_in(page), !.pc = "save"]
            ELSE IF retry /\ call.retries < MaxLoginRetries
            THEN [call EXCEPT !.detected = FALSE, !.first_time = FALSE,
                              !.retries = @ + 1]
            ELSE [call EXCEPT !.detected = FALSE, !.pc = "done",
                              !.returned = Some(FALSE)]
    /\ UNCHANGED server

\* _save_context_storage (lines 40-50) and the rest of setup_login_session
\* (lines 296-336): True once the file is written, False when writing it
\* raised.
SaveContextStorage ==
    /\ call.op = "setup_login_session"
    /\ call.pc = "save"
    /\ \E written \in BOOLEAN :
        call' = [call EXCEPT !.saved = written, !.returned = Some(written),
                             !.pc = "done"]
    /\ UNCHANGED server

HelperNext ==
    \/ FillSearchForm
    \/ ClickErweiterteSuche
    \/ FillUnternehmensregisterForm
    \/ UnternehmensregisterExcept
    \/ CleanNumber
    \/ ExtractAmounts
    \/ WaitForManualLogin
    \/ SaveContextStorage

HelperSpec == HelperInit /\ [][HelperNext]_vars

\* ------------------------------------------------------------------ claims

\* crawl_company has returned a CompanyResponse for the current request.
Returned == pc = Idle /\ IsSome(response) /\ Val(response).status = 200

\* The scraper of source s returned the empty record.
ReturnedEmpty(s) == task[s] = "returned" /\ result[s] = EmptyDict

\* The file at path p if the current request wrote it, else None.
WrittenNow(p) ==
    IF p \in DOMAIN fs /\ IsSome(fs[p]) /\ Val(fs[p]).req = reqNo /\ Val(fs[p]).ok
    THEN fs[p]
    ELSE None

\* What each source produced while handling the current request.
Produced ==
    [handelsregister |->
        [pdf |-> IF HasKey(result["handelsregister"], "download_directory")
                 THEN WrittenNow(PdfPath(CompaniesDir, Val(request.registernummer)))
                 ELSE None,
         xml |-> IF HasKey(result["handelsregister"], "download_directory")
                 THEN WrittenNow(XmlPath(CompaniesDir, Val(request.registernummer)))
                 ELSE None],
     northdata |->
        [html |-> IF HasKey(result["northdata"], "html_filepath")
                     /\ IsSome(result["northdata"].html_filepath)
                  THEN WrittenNow(Val(result["northdata"].html_filepath))
                  ELSE None],
     linkedin |->
        [about_html |-> IF HasKey(result["linkedin"], "about_html")
                        THEN result["linkedin"].about_html ELSE None],
     unternehmensregister |->
        [jahresabschluss_html |->
            IF HasKey(result["unternehmensregister"], "jahresabschluss_html")
            THEN result["unternehmensregister"].jahresabschluss_html ELSE None]]

\* C1 (isolation): when a scraper raised, the response is the one the
\* handler builds from the same results with the empty record in the place
\* of the scraper that raised.
C1_Isolation ==
    (Returned /\ \E s \in Sources : task[s] = "raised")
        => Val(response) = BuildResponse(request, final_ust_idnr, fs, result)

\* C2 (join before use): the handler is past the with block - processing
\* results, in its except clause, or returned - only when no future of the
\* request is still running.
C2_JoinBeforeUse ==
    (pc.at \in {"process", "except"} \/ (pc = Idle /\ IsSome(response)))
        => \A s \in Sources : task[s] # "running"

\* The first awaited scraper raised and the handler is in its except clause.
C2_Witness ==
    /\ pc.at = "except"
    /\ task["handelsregister"] = "raised"
    /\ \A s \in Sources \ {"handelsregister"} : task[s] = "returned"

\* C3 (bounded wait): once the handler waits for its futures it eventually
\* returns a response, also when one scraper never comes to an end while
\* the other three do.
C3_BoundedWait == (pc.at = "await") ~> Returned

\* C4 (partial success): when every scraper returned and at least one of
\* them returned the empty record, the response has success=true and no
\* error, the artifacts of the sources that returned the empty record are
\* null and those of every other source are what that source produced.
C4_PartialSuccess ==
    (Returned /\ (\A s \in Sources : task[s] = "returned")
              /\ (\E s \in Sources : ReturnedEmpty(s)))
        => /\ Val(response).success
           /\ Val(response).error = None
           /\ \A s \in Sources :
                Val(response).files[s] =
                    IF ReturnedEmpty(s) THEN ErrorFiles[s] ELSE Produced[s]

\* C5 (provenance across requests): every non-null artifact in the files of
\* a response was obtained by its source's scraper while handling the very
\* request the response answers.
C5_Provenance ==
    Returned =>
        \A s \in Sources \cap DOMAIN Val(response).files :
            \A k \in DOMAIN Val(response).files[s] :
                IsSome(Val(response).files[s][k])
                    => Val(Val(response).files[s][k]).req = reqNo

\* A register number of the form <type-code><digits>.
WellFormedRegisterNumber(r) ==
    \E t \in RegisterTypes :
        /\ StartsWith(r, t)
        /\ Len(r) > Len(t)
        /\ \A i \in (Len(t) + 1)..Len(r) : r[i] \in Digits

\* C6 (invalid request): for a request whose register number is not a type
\* code followed by digits no scraper is ever started, and the answer it
\* gets is the client error.
C6_InvalidRequest ==
    (reqNo > 0 /\ ~(IsSome(request.registernummer)
                    /\ WellFormedRegisterNumber(Val(request.registernummer))))
        => /\ \A s \in Sources : task[s] = "unsubmitted"
           /\ IsSome(response) => Val(response).status = 422

\* C7 (total failure): a request that entered crawl_company is answered with
\* a CompanyResponse, whatever was raised on the way; in it error is set
\* exactly when success is false, and when success is false all five
\* artifacts are null.
C7_TotalFailure ==
    (pc = Idle /\ reqNo > 0 /\ CompanyRequestValid(request))
        => /\ IsSome(response)
           /\ Val(response).status = 200
           /\ IsSome(Val(response).error) <=> ~Val(response).success
           /\ ~Val(response).success
                => /\ Val(response).files.handelsregister.pdf = None
                   /\ Val(response).files.handelsregister.xml = None
                   /\ Val(response).files.northdata.html = None
                   /\ Val(response).files.linkedin.about_html = None
                   /\ Val(response).files.unternehmensregister.jahresabschluss_html
                        = None

\* Every scraper returned, yet the request failed while the response was
\* being built.
C7_Witness ==
    /\ Returned
    /\ \A s \in Sources : task[s] = "returned"
    /\ ~Val(response).success
    /\ Val(response).error = Some("ValidationError")

\* A string or null: None, or one document or fragment.
IsOptionalStr(v) ==
    v = None
    \/ (Len(v) = 1 /\ {"req", "name", "reg", "ust", "ok"} \subseteq DOMAIN Val(v))

C9_NoCancellation ==
    /\ pc.at \in {"await", "exit_with"}
        => \A s \in Sources : task[s] # "unsubmitted"
    /\ \A s \in Sources : task[s] # "cancelled"
    /\ (pc.at \in {"except", "idle"} /\ \E s \in Sources : task[s] = "raised")
        => \A s \in Sources : task[s] \in Terminal

\* The registry scraper raised, the request failed, and the aggregator
\* scraper still ran to its end and saved its HTML.
C9_Witness ==
    /\ Returned
    /\ ~Val(response).success
    /\ task["handelsregister"] = "raised"
    /\ task["northdata"] = "returned"
    /\ HasKey(result["northdata"], "html_filepath")
    /\ IsSome(WrittenNow(NorthdataPath(Val(request.company_name),
                                       Val(request.registernummer))))

\* C10 (artifact path scoping): a scraper overwrites a file only if the
\* request that left it there had the same company name and the same
\* register number as the request it is working for.
C10_PathScoping ==
    [][\A p \in Paths :
        (fs'[p] # fs[p] /\ IsSome(fs[p]))
            => /\ Val(fs[p]).name = Val(request.company_name)
               /\ Val(fs[p]).reg = Val(request.registernummer)]_vars

\* The fields of the CompanyData schema that the scrapers of the model report.
SchemaFields ==
    {"registernummer", "handelsregister", "gerichtsstand", "geschaeftsfuehrer",
     "geschaeftsadresse", "unternehmenszweck", "land_des_hauptsitzes",
     "paragraph_34_gewo", "insolvenz", "mitarbeiter", "umsatz", "gewinn",
     "ust_idnr", "website", "email", "telefonnummer"}

\* The sources whose returned record holds a value for field f.
Reporters(f) == {s \in Sources : HasKey(result[s], f) /\ IsSome(result[s][f])}

\* The fixed source priority: registry portal, aggregator site, federal
\* register, professional network.
PriorityOrder ==
    <<"handelsregister", "northdata", "unternehmensregister", "linkedin">>

\* The reporter of f that comes first in the priority order.
TopReporter(f) ==
    PriorityOrder[CHOOSE i \in 1..Len(PriorityOrder) :
                    /\ PriorityOrder[i] \in Reporters(f)
                    /\ \A j \in 1..(i - 1) : PriorityOrder[j] \notin Reporters(f)]

\* C11 (priority invariant): when a successful response is returned, every
\* schema field that two or more sources reported with different values is
\* held by the response with the value of the highest-priority reporter.
C11_Priority ==
    (Returned /\ Val(response).success) =>
        \A f \in SchemaFields :
            (\E s, t \in Reporters(f) : result[s][f] # result[t][f])
                => /\ HasKey(Val(response), f)
                   /\ Val(response)[f] = result[TopReporter(f)][f]

\* The registry scraper of the current request returned after a search with
\* a result: pdf_data and xml_data as steps 9 and 10 extract them.
RegistryFound ==
    task["handelsregister"] = "returned" /\ search["handelsregister"] = "match"

PdfData == extract_pdf_data(fs, CompaniesDir, Val(request.registernummer))

XmlData == extract_xml_data(fs, CompaniesDir, Val(request.registernummer))

C13_Absence ==
    \A s \in Sources :
        task[s] = "returned" =>
            \A k \in DOMAIN result[s] : IsSome(result[s][k])

\* The sources a response lists: its data_sources when it has that key, else
\* the sources its files are grouped by.
ListedSources(resp) ==
    IF HasKey(resp, "data_sources") THEN resp.data_sources
    ELSE Sources \cap DOMAIN resp.files

\* Source s contributed a value: a field value in its record or an artifact
\* in the files of the response.
Contributed(s, resp) ==
    \/ \E f \in SchemaFields \ {"registernummer"} : s \in Reporters(f)
    \/ \E k \in DOMAIN resp.files[s] : IsSome(resp.files[s][k])

\* C14 (data_sources exactness): the sources a successful response lists
\* are exactly the sources that contributed at least one value.
C14_DataSources ==
    (Returned /\ Val(response).success) =>
        ListedSources(Val(response)) = {s \in Sources : Contributed(s, Val(response))}

\* The files under data/companies/ that the current request's scrapers wrote:
\* what the disk would hold had no earlier request been served.
OwnFiles ==
    [p \in DOMAIN fs |->
        IF IsSome(fs[p]) /\ Val(fs[p]).req = reqNo THEN fs[p] ELSE None]

\* C15 (idempotence): the response crawl_company builds from the four
\* returned records is the one it builds from the same request and the same
\* records on a server that has served no earlier request.
C15_Idempotence ==
    (Returned /\ exc = None) =>
        Val(response) = BuildResponse(request, final_ust_idnr, OwnFiles, result)

\* C16 (authentication required): when the LinkedIn scraper found no
\* logged-in session it made no search, and the record it returns differs
\* from the record of a logged-in run whose search found no company.
C16_AuthenticationRequired ==
    (task["linkedin"] = "returned" /\ search["linkedin"] = "nosession") =>
        result["linkedin"] # LinkedInData("nomatch", reqNo,
                                          Val(request.company_name),
                                          Val(request.registernummer))

\* C17 (NotFound is a valid empty result): a scraper whose search found no
\* matching entity returns normally, without error marker, and its record
\* holds no value for any schema field besides the register number asked for.
C17_NotFound ==
    \A s \in Sources :
        (task[s] \in Terminal /\ search[s] = "nomatch") =>
            /\ task[s] = "returned"
            /\ ~HasKey(result[s], "error")
            /\ \A f \in SchemaFields \ {"registernummer"} : s \notin Reporters(f)

\* The current request retrieved the document at path p and no parser can
\* read it.
Unparsable(p) ==
    /\ IsSome(fs[p])
    /\ Val(fs[p]).req = reqNo
    /\ Val(fs[p]).doc = None

\* registernummer and download_directory as scrape_company sets them.
RegistryBase ==
    [registernummer |-> request.registernummer,
     download_directory |-> Some(CompaniesDir)]

\* C18 (ParseFailure degrades to empty): when the registry scraper retrieved
\* a document that cannot be parsed, it still returns, and its record is the
\* download directory and register number with the fields of the other
\* document and nothing else.
C18_ParseFailure ==
    LET pdf == PdfPath(CompaniesDir, Val(request.registernummer))
        xml == XmlPath(CompaniesDir, Val(request.registernummer))
    IN  /\ (IsSome(request.registernummer) /\ Unparsable(xml)) =>
                /\ task["handelsregister"] = "returned"
                /\ result["handelsregister"] = DictUpdate(RegistryBase, PdfData)
        /\ (IsSome(request.registernummer) /\ Unparsable(pdf)) =>
                /\ task["handelsregister"] = "returned"
                /\ result["handelsregister"] = DictUpdate(RegistryBase, XmlData)

\* The XML cannot be parsed and the record holds the court the PDF names;
\* or the PDF cannot be read and the record holds the court of the XML.
C18_Witness ==
    LET pdf == PdfPath(CompaniesDir, RegHRB1)
        xml == XmlPath(CompaniesDir, RegHRB1)
    IN  /\ request = FieldsRequest
        /\ task["handelsregister"] = "returned"
        /\ HasKey(result["handelsregister"], "handelsregister")
        /\ HasKey(result["handelsregister"], "download_directory")
        /\ \/ /\ Unparsable(xml)
              /\ result["handelsregister"].handelsregister = Some(<<"B", " ", "Berlin">>)
           \/ /\ Unparsable(pdf)
              /\ result["handelsregister"].handelsregister = Some(<<"Hamburg">>)

\* C19 (aggregator omits what it cannot locate): every key of the record
\* NorthdataScraper.scrape_company returns maps to a value that is not None.
C19_AggregatorOmits ==
    task["northdata"] = "returned" =>
        \A k \in DOMAIN result["northdata"] : IsSome(result["northdata"][k])

\* A register number with its whitespace stripped.
StripWhitespace(r) == Replace(r, <<" ">>, <<>>)

\* The stored company matches the identifier as the claim defines it: names
\* equal ignoring case, register numbers equal after stripping whitespace.
SameIdentifier(company, company_name, registernummer) ==
    /\ IsSome(DictGet(company, "company_name"))
    /\ IsSome(DictGet(company, "registernummer"))
    /\ Lower(Val(DictGet(company, "company_name"))) = Lower(company_name)
    /\ StripWhitespace(Val(DictGet(company, "registernummer")))
           = StripWhitespace(registernummer)

\* C20 (identifier matching): a tax id that crawl_company took from
\* companies.json (the request gave none) is the tax id of a stored company
\* whose name equals the requested one ignoring case and whose register
\* number equals the requested one after stripping whitespace.
C20_IdentifierMatching ==
    (CompanyRequestValid(request) /\ ~Truthy(request.ust_idnr)
        /\ IsSome(final_ust_idnr)) =>
        \E i \in 1..Len(load_companies_data(companies)) :
            LET company == load_companies_data(companies)[i]
            IN  /\ SameIdentifier(company, Val(request.company_name),
                                  Val(request.registernummer))
                /\ Truthy(DictGet(company, "ust_idnr"))
                /\ Strip(Val(DictGet(company, "ust_idnr"))) = Val(final_ust_idnr)

\* The strings of digits a register number can end in here.
DigitSuffixes == StringsUpTo(RegDigits, MaxDigits) \ {<<>>}

\* C21: for every register number made of one of the six type codes followed
\* by digits, _get_register_type returns that code, _get_register_number
\* returns exactly the digits, the code _get_register_number cut off is the
\* one _get_register_type returned, and code and number put together give
\* the input back.
C21_RegisterDecomposition ==
    (call.op = "fill_search_form" /\ call.pc = "done") =>
        \A t \in RegisterTypes : \A d \in DigitSuffixes :
            call.registernummer = t \o d =>
                /\ call.register_type = t
                /\ call.register_number = d
                /\ Len(call.registernummer) - Len(call.register_number)
                       = Len(call.register_type)
                /\ call.register_type \o call.register_number
                       = call.registernummer

\* A register number of a two-letter code has been taken apart.
C21_Witness ==
    /\ call.op = "fill_search_form"
    /\ call.pc = "done"
    /\ call.registernummer = <<"P", "R", "1", "7">>
    /\ call.register_type = <<"P", "R">>
    /\ call.register_number = <<"1", "7">>

\* C22: for every register number of any of the six type codes, what
\* UnternehmensregisterScraper.scrape_company types into the register-number
\* field is exactly the digits after the type code.
C22_FederalRegisterSuffix ==
    (call.op = "unternehmensregister" /\ IsSome(call.typed)) =>
        \A t \in RegisterTypes : \A d \in DigitSuffixes :
            call.registernummer = t \o d => Val(call.typed) = d

\* The number an amount stands for: its digits before the comma, groups
\* included, and its decimals.
NumericValue(a) == Float(FALSE, a.lead \o Joined(a.groups, <<>>), a.decimals)

\* C23: PDFDataExtractor._clean_number turns an amount written with dots as
\* thousands separators and a decimal comma, with or without a currency
\* marker after it, into the number it stands for.
C23_EuropeanNumber ==
    (call.op = "clean_number" /\ call.pc = "done") =>
        \A a \in Amounts : \A m \in Markers :
            call.value = Written(a, m) => call.returned = Some(NumericValue(a))

\* "11.100.000,00 EUR" has been parsed to 11100000.00.
C23_Witness ==
    /\ call.op = "clean_number"
    /\ call.pc = "done"
    /\ call.value = <<"1", "1", ".", "1", "0", "0", ".", "0", "0", "0", ",", "0", "0",
                      " ", "E", "U", "R">>
    /\ call.returned = Some([negative |-> FALSE,
                             int |-> <<"1", "1", "1", "0", "0", "0", "0", "0">>,
                             frac |-> <<>>])

\* The amount of a page, n million euros, in euros.
TimesMillion(p) ==
    Float(FALSE, p.whole \o p.decimal \o [i \in 1..(6 - Len(p.decimal)) |-> "0"], <<>>)

\* C24: an amount written as a decimal-comma number followed by "Mio." is
\* extracted as its value in euros, the number times one million, as
\* revenue, as profit or loss and as asset value.
C24_MillionScaled ==
    (call.op = "extract_amounts" /\ call.pc = "done") =>
        \A p \in AmountPages :
            call.page_content = AmountPage(p) =>
                /\ p.section = <<"UMSATZ">> => call.umsatz = Some(TimesMillion(p))
                /\ Head(p.section) = "GEWINN" =>
                      /\ IsSome(call.gewinn)
                      /\ [Val(call.gewinn) EXCEPT !.negative = FALSE] = TimesMillion(p)
                /\ p.tail # <<>> =>
                      call.gesamtwert_immobilien = Some(TimesMillion(p))

\* The artifacts crawl_company has read when all four scrapers are done.
ArtifactsRead ==
    [xml |-> HandelsregisterFiles(fs, result["handelsregister"],
                                  Val(request.registernummer)).xml,
     html |-> NorthdataFiles(fs, result["northdata"]).html,
     jahresabschluss_html |->
        UnternehmensregisterFiles(result["unternehmensregister"]).jahresabschluss_html]

\* The tax id an artifact holds, None for an artifact that is None.
UstOf(artifact) == IF IsSome(artifact) THEN SearchUst(Val(artifact)) ELSE None

\* extracted_ust_idnr of the request being handled.
Extracted ==
    ExtractUst(final_ust_idnr,
               HandelsregisterFiles(fs, result["handelsregister"],
                                    Val(request.registernummer)),
               NorthdataFiles(fs, result["northdata"]),
               UnternehmensregisterFiles(result["unternehmensregister"]))

\* C25: the tax id of a request is the request's value if that is not blank,
\* else the value of companies.json; a tax id is extracted from the scraped
\* artifacts only when both are absent, and then it is the one of the
\* registry XML, else the one of the aggregator HTML, else the one of the
\* federal-register HTML: the value of a single source, a lower-ranked one
\* only when every higher-ranked one holds none.
C25_TaxIdPrecedence ==
    pc.at = "process" =>
        LET from_file == get_company_ust_idnr(companies, Val(request.company_name),
                                              Val(request.registernummer)).value
            given == IsSome(request.ust_idnr) /\ Strip(Val(request.ust_idnr)) # <<>>
            xml == UstOf(ArtifactsRead.xml)
            html == UstOf(ArtifactsRead.html)
            filing == UstOf(ArtifactsRead.jahresabschluss_html)
        IN  /\ given => final_ust_idnr = request.ust_idnr
            /\ ~given => final_ust_idnr = from_file
            /\ (given \/ IsSome(from_file)) => Extracted = None
            /\ ~(given \/ IsSome(from_file)) =>
                  /\ IsSome(xml) => Extracted = xml
                  /\ (~IsSome(xml) /\ IsSome(html)) => Extracted = html
                  /\ (~IsSome(xml) /\ ~IsSome(html)) => Extracted = filing

\* Neither the request nor companies.json gives a tax id, the registry XML
\* holds none, the aggregator HTML and the federal-register HTML hold one
\* each, and the aggregator's is the one extracted.
C25_Witness ==
    /\ pc.at = "process"
    /\ ~Truthy(final_ust_idnr)
    /\ IsSome(ArtifactsRead.xml)
    /\ UstOf(ArtifactsRead.xml) = None
    /\ UstOf(ArtifactsRead.html) = Some(UstInNorthdata)
    /\ UstOf(ArtifactsRead.jahresabschluss_html) = Some(UstInJahresabschluss)
    /\ Extracted = Some(UstInNorthdata)

\* C26: when neither the request nor companies.json gives a tax id and some
\* scraped artifact holds one, crawl_company returns success=true, with the
\* extracted tax id in the response and the artifacts of the four sources
\* still in files.
C26_ExtractedInResponse ==
    (/\ Returned
     /\ \A s \in Sources : task[s] = "returned"
     /\ ~Truthy(final_ust_idnr)
     /\ IsSome(Extracted)) =>
        LET files == Val(response).files
        IN  /\ Val(response).success
            /\ HasKey(files, "extracted_ust_idnr")
            /\ files.extracted_ust_idnr = Val(Extracted)
            /\ files.handelsregister.xml = ArtifactsRead.xml
            /\ files.northdata.html = ArtifactsRead.html
            /\ files.linkedin = LinkedInFiles(result["linkedin"])
            /\ files.unternehmensregister.jahresabschluss_html
                   = ArtifactsRead.jahresabschluss_html

\* What reading the XML file, and the PDF file, of the request's register
\* number in the download directory gives.
XmlRead ==
    ReadFile(fs, XmlPath(Val(result["handelsregister"].download_directory),
                         Val(request.registernummer)))

PdfRead ==
    ReadFile(fs, PdfPath(Val(result["handelsregister"].download_directory),
                         Val(request.registernummer)))

\* C27: in a response built from the four scrapers' results, whenever the
\* XML file of the request's register number is in the download directory
\* and can be read, files.handelsregister.xml is its content, whether the
\* PDF file is there or not and whether its text can be extracted or not;
\* and likewise the text of a PDF that can be read is files.handelsregister.pdf
\* whatever the XML file.
C27_ArtifactIndependence ==
    (/\ Returned
     /\ Val(response).success
     /\ \A s \in Sources : task[s] = "returned"
     /\ HasKey(result["handelsregister"], "download_directory")) =>
        /\ XmlRead.kind = "text" =>
              Val(response).files.handelsregister.xml = XmlRead.text
        /\ PdfRead.kind = "text" =>
              Val(response).files.handelsregister.pdf = PdfRead.text

\* C28: in UnternehmensregisterScraper.scrape_company the 'Erweiterte Suche'
\* click is attempted at most 3 times, no attempt follows one that went
\* through, and when all 3 attempts failed nothing is typed into the search
\* form and the call ends by returning the empty record.
C28_BoundedRetry ==
    call.op = "unternehmensregister" =>
        /\ Len(call.clicks) <= 3
        /\ \A i \in 1..Len(call.clicks) : call.clicks[i] => i = Len(call.clicks)
        /\ call.clicks = <<FALSE, FALSE, FALSE>> =>
              /\ call.typed = None
              /\ call.pc \in {"except", "done"}
              /\ call.pc = "done" => call.returned = Some(EmptyDict)

\* All three attempts failed and the call has returned.
C28_Witness ==
    /\ call.op = "unternehmensregister"
    /\ call.clicks = <<FALSE, FALSE, FALSE>>
    /\ call.pc = "done"
    /\ call.returned = Some(EmptyDict)

\* C29: the session storage file is written only after wait_for_manual_login
\* detected a logged-in state, by the URL test or by the visible search box,
\* however often the user tried again.
C29_SessionAfterLogin ==
    (call.op = "setup_login_session" /\ call.pc \in {"save", "done"}) =>
        /\ call.pc = "save" => call.detected
        /\ call.saved => call.detected

\* C30: whatever data/companies.json is (missing, unparsable, or a list with
\* entries whose fields are missing or null), the tax-id lookup of a request
\* does not fail and all four scrapers are invoked for the request.
C30_CompaniesNeverBlock ==
    Returned =>
        /\ get_company_ust_idnr(companies, Val(request.company_name),
                                Val(request.registernummer)).kind # "raise"
        /\ \A s \in Sources : task[s] # "unsubmitted"

=============================================================================
